---- MODULE Spec2Model ----
(***************************************************************************)
(* Video streaming proxy (src/app.py): URL validation, HLS manifest        *)
(* resolution and rewriting, range proxy and download relay.               *)
(*                                                                         *)
(* Text is a sequence of tokens.  The characters the code inspects         *)
(* (":", "/", "?", " ", "\r") are tokens of their own; every other token   *)
(* is a run of characters the code never looks inside (a name, an          *)
(* extension such as ".m3u8", a directive such as "#EXTINF").              *)
(***************************************************************************)
EXTENDS Integers, Sequences, FiniteSets, TLC

\* ------------------------------------------------------------------ text

None == "None"

Whitespace == {" ", "\r", "\t"}

\* str.lower(), token by token
LowerTok(t) ==
  CASE t = "HTTP" -> "http"
    [] t = "HTTPS" -> "https"
    [] t = ".M3U8" -> ".m3u8"
    [] OTHER -> t

Lower(s) == [i \in 1..Len(s) |-> LowerTok(s[i])]

EndsWith(s, suf) ==
  /\ Len(s) >= Len(suf)
  /\ SubSeq(s, Len(s) - Len(suf) + 1, Len(s)) = suf

\* str.startswith('#'): the directive tokens are the ones that begin with '#'
StartsWithHash(s) == Len(s) > 0 /\ s[1] \in {"#", "#EXTM3U", "#EXTINF", "#EXT-X-STREAM-INF", "#EXT-X-ENDLIST"}

\* the one element of a singleton set; { e(x) : x \in {v} } names the value v
Only(S) == CHOOSE x \in S : TRUE

\* the number of leading tokens of s that are in set D
LeadCount(s, D) == Cardinality({i \in 1..Len(s) : \A j \in 1..i : s[j] \in D})

\* the number of trailing tokens of s that are in set D
TrailCount(s, D) == Cardinality({i \in 1..Len(s) : \A j \in i..Len(s) : s[j] \in D})

LStrip(s) == SubSeq(s, LeadCount(s, Whitespace) + 1, Len(s))

RStrip(s) == SubSeq(s, 1, Len(s) - TrailCount(s, Whitespace))

\* str.strip()
Strip(s) == Only({RStrip(l) : l \in {LStrip(s)}})

\* index of the first token of s that is in set D, or Len(s) + 1
FindFirst(s, D) ==
  Only({IF hits = {} THEN Len(s) + 1 ELSE CHOOSE i \in hits : \A j \in hits : i <= j :
          hits \in {{i \in 1..Len(s) : s[i] \in D}}})

\* str.split(sep): part k lies between the (k-1)-th and the k-th separator
Split(s, sep) ==
  Only({[k \in 1..Cardinality(cuts) + 1 |->
           LET from == IF k = 1 THEN 0
                       ELSE CHOOSE c \in cuts : Cardinality({d \in cuts : d < c}) = k - 2
               to   == IF k = Cardinality(cuts) + 1 THEN Len(s) + 1
                       ELSE CHOOSE c \in cuts : Cardinality({d \in cuts : d < c}) = k - 1
           IN  SubSeq(s, from + 1, to - 1)] :
          cuts \in {{i \in 1..Len(s) : s[i] = sep}}})

\* sep.join(parts)
RECURSIVE JoinFrom(_, _, _)
JoinFrom(parts, sep, i) ==
  IF i > Len(parts) THEN <<>>
  ELSE IF i = Len(parts) THEN parts[i]
  ELSE parts[i] \o <<sep>> \o JoinFrom(parts, sep, i + 1)

Join(parts, sep) == JoinFrom(parts, sep, 1)

\* ------------------------------------------------------------------ urllib.parse

SchemeNames == {"http", "https", "ftp", "HTTP", "HTTPS"}

\* urlsplit first drops leading whitespace and every tab and CR
CleanURL(url) == SelectSeq(LStrip(url), LAMBDA t : t \notin {"\r", "\t"})

\* the scheme (lower-cased) and what follows its colon
SplitScheme(url, default) ==
  IF Len(url) >= 2 /\ url[1] \in SchemeNames /\ url[2] = ":"
    THEN [scheme |-> LowerTok(url[1]), rest |-> SubSeq(url, 3, Len(url))]
  ELSE [scheme |-> default, rest |-> url]

\* the netloc behind a leading '//' and what follows it
SplitNetloc(rest) ==
  IF Len(rest) >= 2 /\ rest[1] = "/" /\ rest[2] = "/"
    THEN Only({[netloc |-> SubSeq(rest, 3, 2 + e - 1), rest |-> SubSeq(rest, 2 + e, Len(rest))] :
                 e \in {FindFirst(SubSeq(rest, 3, Len(rest)), {"/", "?"})}})
  ELSE [netloc |-> <<>>, rest |-> rest]

\* urlparse(url, default_scheme): scheme, netloc, path, query
urlparse(url0, default) ==
  Only({Only({Only({[scheme |-> s.scheme,
                     netloc |-> n.netloc,
                     path   |-> SubSeq(n.rest, 1, q - 1),
                     query  |-> SubSeq(n.rest, q + 1, Len(n.rest))] :
                      q \in {FindFirst(n.rest, {"?"})}}) :
                n \in {SplitNetloc(s.rest)}}) :
          s \in {SplitScheme(CleanURL(url0), default)}})

\* the host part of a netloc: what follows userinfo and precedes the port
hostname(netloc) ==
  Only({Only({SubSeq(hp, 1, FindFirst(hp, {":"}) - 1) :
                hp \in {IF at > Len(netloc) THEN netloc
                        ELSE SubSeq(netloc, at + 1, Len(netloc))}}) :
          at \in {FindFirst(netloc, {"@"})}})

\* urlunparse
urlunparse(scheme, netloc, path, query) ==
  (IF scheme # "" THEN <<scheme, ":">> ELSE <<>>)
  \o (IF netloc # <<>> \/ (scheme # "" /\ Len(path) >= 2 /\ path[1] = "/" /\ path[2] = "/")
        THEN <<"/", "/">> \o netloc ELSE <<>>)
  \o path
  \o (IF query # <<>> THEN <<"?">> \o query ELSE <<>>)

\* the dot-segment removal loop of urljoin: the segments that survive are
\* those not popped by a later '..'
RECURSIVE RemoveDots(_, _, _)
RemoveDots(segments, i, acc) ==
  IF i > Len(segments) THEN acc
  ELSE IF segments[i] = <<"..">>
    THEN RemoveDots(segments, i + 1, SubSeq(acc, 1, Len(acc) - 1))
  ELSE IF segments[i] = <<".">> THEN RemoveDots(segments, i + 1, acc)
  ELSE RemoveDots(segments, i + 1, Append(acc, segments[i]))

\* segments[1:-1] = filter(None, segments[1:-1])
DropEmptyInner(segments) ==
  IF Len(segments) <= 2 THEN segments
  ELSE <<segments[1]>>
       \o SelectSeq(SubSeq(segments, 2, Len(segments) - 1), LAMBDA x : x # <<>>)
       \o <<segments[Len(segments)]>>

\* the path of urljoin when the reference has a path of its own
MergePaths(bpath, path) ==
  Only({Only({Only({IF joined = <<>> THEN <<"/">> ELSE joined :
                      joined \in {Join(IF segments[Len(segments)] \in {<<".">>, <<"..">>}
                                         THEN Append(RemoveDots(segments, 1, <<>>), <<>>)
                                       ELSE RemoveDots(segments, 1, <<>>), "/")}}) :
                segments \in {IF path[1] = "/" THEN Split(path, "/")
                              ELSE DropEmptyInner(
                                     (IF bp0[Len(bp0)] # <<>>
                                        THEN SubSeq(bp0, 1, Len(bp0) - 1) ELSE bp0)
                                     \o Split(path, "/"))}}) :
          bp0 \in {Split(bpath, "/")}})

\* urljoin(base, url)
urljoin(base, url) ==
  IF base = <<>> THEN url
  ELSE IF url = <<>> THEN base
  ELSE
    Only({Only({IF u.scheme # b.scheme \/ u.scheme \notin {"http", "https", "ftp", ""}
                  THEN url
                ELSE IF u.netloc # <<>>
                  THEN urlunparse(u.scheme, u.netloc, u.path, u.query)
                ELSE IF u.path = <<>>
                  THEN urlunparse(u.scheme, b.netloc, b.path,
                                  IF u.query = <<>> THEN b.query ELSE u.query)
                ELSE urlunparse(u.scheme, b.netloc, MergePaths(b.path, u.path), u.query) :
                  u \in {urlparse(url, b.scheme)}}) :
            b \in {urlparse(base, "")}})

\* quote(s, safe=''): unreserved characters stay, every other one is %XX
QuoteTok(t) ==
  CASE t = ":" -> "%3A"
    [] t = "/" -> "%2F"
    [] t = "?" -> "%3F"
    [] t = "@" -> "%40"
    [] t = " " -> "%20"
    [] t = "\r" -> "%0D"
    [] t = "\t" -> "%09"
    [] t = "#" -> "%23"
    [] OTHER -> t

\* quote with its default safe='/': the slash is left as it is
quote_SlashSafe(s) == [i \in 1..Len(s) |-> IF s[i] = "/" THEN "/" ELSE QuoteTok(s[i])]

quote(s) == [i \in 1..Len(s) |-> QuoteTok(s[i])]

\* percent-decoding, as the receiving side of the proxy path does it
UnquoteTok(t) ==
  CASE t = "%3A" -> ":"
    [] t = "%2F" -> "/"
    [] t = "%3F" -> "?"
    [] t = "%40" -> "@"
    [] t = "%20" -> " "
    [] t = "%0D" -> "\r"
    [] t = "%09" -> "\t"
    [] t = "%23" -> "#"
    [] OTHER -> t

unquote(s) == [i \in 1..Len(s) |-> UnquoteTok(s[i])]

\* ------------------------------------------------------------------ configuration

\* 10 GiB, counted in MiB as every size of the model is
MAX_FILE_SIZE == 10 * 1024

\* ------------------------------------------------------------------ inputs

Origin == <<"http", ":", "/", "/", "origin">>

Dir == Origin \o <<"/", "path", "/">>

U_master == Dir \o <<"master", ".m3u8">>

U_nested == Dir \o <<"nested", ".m3u8">>

U_master_uc == Dir \o <<"master", ".M3U8">>

U_master_q == U_master \o <<"?", "t=1">>

U_direct == Origin \o <<"/", "v", ".mp4">>

U_nohost == <<"http", ":", "/", "/", ":", "80", "/", "v", ".mp4">>

U_nohost_hls == <<"https", ":", "/", "/", "u", "@", "/", "a", ".m3u8">>

U_ftp == <<"ftp", ":", "/", "/", "origin", "/", "v", ".mp4">>

U_ftp_hls == <<"ftp", ":", "/", "/", "origin", "/", "a", ".m3u8">>

U_nonetloc == <<"http", ":", "/", "v", ".mp4">>

U_noscheme == <<"origin", "/", "a", ".m3u8">>

\* the url parameter as the client may send it (already stripped)
InvalidURLs == {<<>>, U_ftp, U_ftp_hls, U_nonetloc, U_noscheme}

HlsURLs == {U_master, U_master_uc, U_nohost_hls}

DirectURLs == {U_direct, U_master_q, U_nohost}

ClientURLs == InvalidURLs \cup HlsURLs \cup DirectURLs

Qualities == {None, "", "2000000", "500000", "999"}

\* the client's Range header: absent, present with an empty value, present
ClientRanges == {None, "", "bytes=0-99"}

AudioIds == {"", "aac", "ac3", "xx"}

\* ------------------------------------------------------------------ upstream

NL == "\n"

Line(toks) == toks \o <<NL>>

\* #EXT-X-STREAM-INF:BANDWIDTH=<bw>,AUDIO="<audio>" followed by the URI line
StreamInf(bw, audio, uri) == <<"#EXT-X-STREAM-INF", bw, audio, NL>> \o Line(uri)

MediaA ==
  Line(<<"#EXTM3U">>) \o Line(<<"#EXTINF">>) \o Line(<<"segment1", ".ts">>)
  \o Line(<<"#EXTINF">>) \o <<"http", ":", "/", "/", "cdn", "/", "seg2", ".ts">>

\* CRLF line ends, stray whitespace, dot segments, a sub-manifest
MediaB ==
  Line(<<"#EXTM3U", "\r">>) \o Line(<<"#EXTINF", "\r">>)
  \o Line(<<"..", "/", "up", "/", "s", ".ts", "\r">>)
  \o Line(<<" ">>) \o Line(<<" ", "#EXTINF">>)
  \o Line(<<"/", "abs", "/", "s", ".ts", " ">>)
  \o Line(<<"sub", ".m3u8">>) \o <<>>

MasterText ==
  Line(<<"#EXTM3U">>)
  \o StreamInf("500000", "", <<"low", ".m3u8">>)
  \o StreamInf("2000000", "aac", <<"high", ".m3u8">>)
  \o StreamInf("1200000", "ac3", <<"http", ":", "/", "/", "cdn", "/", "mid", ".m3u8">>)

\* equal bandwidths and a missing one
TiesText ==
  Line(<<"#EXTM3U">>)
  \o StreamInf("", "aac", <<"none", ".m3u8">>)
  \o StreamInf("500000", "ac3", <<"first", ".m3u8">>)
  \o StreamInf("500000", "aac", <<"second", ".m3u8">>)

NestedText == Line(<<"#EXTM3U">>) \o StreamInf("2000000", "aac", <<"nested", ".m3u8">>)

Nested2Text == Line(<<"#EXTM3U">>) \o StreamInf("500000", "", <<"high", ".m3u8">>)

CycleText == Line(<<"#EXTM3U">>) \o StreamInf("2000000", "aac", <<"master", ".m3u8">>)

\* variant URIs that are not http(s) URLs with a host
BadText ==
  Line(<<"#EXTM3U">>)
  \o StreamInf("2000000", "aac", <<"ftp", ":", "/", "/", "cdn", "/", "x", ".m3u8">>)
  \o StreamInf("500000", "", <<"http", ":", "/", "/", ":", "80", "/", "y", ".m3u8">>)

MalformedText == Line(<<"#EXTM3U">>) \o StreamInf("abc", "", <<"low", ".m3u8">>)

Sites == {"mediaA", "mediaB", "master", "ties", "nested", "cycle", "bad", "malformed"}

\* the text upstream serves at url
PlaylistText(site, url) ==
  CASE site = "mediaB" -> MediaB
    [] site = "master" /\ url = U_master -> MasterText
    [] site = "ties" /\ url = U_master -> TiesText
    [] site = "nested" /\ url = U_master -> NestedText
    [] site = "nested" /\ url = U_nested -> Nested2Text
    [] site = "nested" -> MediaB
    [] site = "cycle" -> CycleText
    [] site = "bad" /\ url = U_master -> BadText
    [] site = "malformed" -> MalformedText
    [] OTHER -> MediaA

Statuses == {200, 206, 301, 404, 416, 500}

NoHeader == "<absent>"

ContentTypes ==
  {NoHeader, "application/vnd.apple.mpegurl", "application/x-mpegURL", "text/plain",
   "video/mp2t"}

ContentLengths == {NoHeader, "abc", "0", "10240", "10241", "20000"}

\* bound on the number of chunks of an upstream body
MaxChunks == 2

Chunks == {"a", "b", ""}

RECURSIVE SeqsUpTo(_, _)
SeqsUpTo(S, n) ==
  IF n = 0 THEN {<<>>}
  ELSE LET shorter == SeqsUpTo(S, n - 1)
       IN  shorter \cup {Append(q, x) : q \in {r \in shorter : Len(r) = n - 1}, x \in S}

Bodies == SeqsUpTo(Chunks, MaxChunks)

\* bound on the nesting of stream_hls calls (the interpreter's recursion limit)
MaxDepth == 3

\* bound on the index of the upstream fetch that misbehaves
MaxFetch == 3

ProbeOutcomes == {"absent", "nonzero", "timeout", "raises", "data", "nostreams", "badrate"}

\* what upstream does: fetch number `at` ends in a transport fault or answers
\* `status`, every other fetch answers 200
Anomalies ==
  [at : {1}, fault : {"none"}, status : {200}]
  \cup [at : 1..MaxFetch, fault : {"timeout", "connerr"}, status : {200}]
  \cup [at : 1..MaxFetch, fault : {"none"}, status : Statuses \ {200}]

DefaultUp ==
  [site |-> "mediaA", at |-> 1, fault |-> "none", status |-> 200, ctype |-> NoHeader, clen |-> NoHeader,
   body |-> <<>>, probe |-> "absent", deep |-> "parse"]

\* ------------------------------------------------------------------ numbers

Numerals == {0, 500000, 1200000, 2000000, MAX_FILE_SIZE, MAX_FILE_SIZE + 1, 20000}

\* int(s) succeeds
IsNumeral(s) == \E n \in Numerals : ToString(n) = s

\* int(s)
IntOf(s) == CHOOSE n \in Numerals : ToString(n) = s

\* a variant whose stream info carries no bandwidth (None in the code)
NoBandwidth == -1

\* str(bandwidth)
Str(bw) == IF bw = NoBandwidth THEN "None" ELSE ToString(bw)

\* ------------------------------------------------------------------ requests

\* what the HTTP library accepts: any other URL raises a RequestException
\* (InvalidSchema, MissingSchema, InvalidURL) before anything is sent
Fetchable(url) ==
  LET p == urlparse(url, "")
  IN  p.scheme \in {"http", "https"} /\ hostname(p.netloc) # <<>>

NetCount(calls) == Cardinality({i \in 1..Len(calls) : calls[i].net})

\* requests.get / requests.head of url, after the calls already made:
\* outcome "invalid" | "timeout" | "connerr" | "response"
Fetch(up, url, calls) ==
  LET k == NetCount(calls) + 1
  IN  IF ~Fetchable(url)
        THEN [outcome |-> "invalid", net |-> FALSE, status |-> 0]
      ELSE IF up.at = k /\ up.fault # "none"
        THEN [outcome |-> up.fault, net |-> TRUE, status |-> 0]
      ELSE [outcome |-> "response", net |-> TRUE,
            status |-> IF up.at = k THEN up.status ELSE 200]

Call(m, via, url, range, f) ==
  [m |-> m, via |-> via, url |-> url, range |-> range, net |-> f.net,
   outcome |-> f.outcome, status |-> f.status]

\* ------------------------------------------------------------------ is_valid_url, is_hls_url

is_valid_url(url) ==
  /\ url # <<>>
  /\ LET parsed == urlparse(url, "")
     IN  parsed.scheme \in {"http", "https"} /\ parsed.netloc # <<>>

\* is_hls_url without the lower(): the extension compared case-sensitively
is_hls_url_CaseSensitive(url) == EndsWith(url, <<".m3u8">>)

is_hls_url(url) == EndsWith(Lower(url), <<".m3u8">>)

\* ------------------------------------------------------------------ parse_hls_playlist

\* m3u8.loads: the variant entries of a playlist text, in order of appearance;
\* ok is FALSE when the parser raises (a bandwidth that is no number)
RECURSIVE ParsePlaylists(_, _, _, _)
ParsePlaylists(lines, i, inf, acc) ==
  IF i > Len(lines) THEN [ok |-> TRUE, playlists |-> acc]
  ELSE
    Only({IF line = <<>> THEN ParsePlaylists(lines, i + 1, inf, acc)
          ELSE IF line[1] = "#EXT-X-STREAM-INF"
            THEN IF line[2] # "" /\ ~IsNumeral(line[2])
                   THEN [ok |-> FALSE, playlists |-> <<>>]
                 ELSE ParsePlaylists(lines, i + 1, <<line>>, acc)
          ELSE IF StartsWithHash(line) THEN ParsePlaylists(lines, i + 1, inf, acc)
          ELSE IF inf # <<>>
            THEN ParsePlaylists(lines, i + 1, <<>>,
                   Append(acc, [uri |-> line,
                                bandwidth |-> IF inf[1][2] = "" THEN NoBandwidth
                                              ELSE IntOf(inf[1][2]),
                                audio |-> IF inf[1][3] = "" THEN None ELSE inf[1][3]]))
          ELSE ParsePlaylists(lines, i + 1, inf, acc) :
            line \in {Strip(lines[i])}})

m3u8_loads(text) == Only({ParsePlaylists(lines, 1, <<>>, <<>>) : lines \in {Split(text, NL)}})

\* key=lambda v: v.get('bandwidth', 0) or 0
BandwidthKey(v) == IF v.bandwidth = NoBandwidth THEN 0 ELSE v.bandwidth

\* InsertSorted with > in place of >=: v goes in front of its equals
RECURSIVE InsertSorted_Unstable(_, _)
InsertSorted_Unstable(sorted, v) ==
  IF sorted = <<>> THEN <<v>>
  ELSE IF BandwidthKey(Head(sorted)) > BandwidthKey(v)
    THEN <<Head(sorted)>> \o InsertSorted_Unstable(Tail(sorted), v)
  ELSE <<v>> \o sorted

\* insert v behind every element whose key is not smaller (stable, descending)
RECURSIVE InsertSorted(_, _)
InsertSorted(sorted, v) ==
  IF sorted = <<>> THEN <<v>>
  ELSE IF BandwidthKey(Head(sorted)) >= BandwidthKey(v)
    THEN <<Head(sorted)>> \o InsertSorted(Tail(sorted), v)
  ELSE <<v>> \o sorted

\* variants.sort(key=..., reverse=True)
RECURSIVE SortVariants(_)
SortVariants(variants) ==
  IF variants = <<>> THEN <<>>
  ELSE Only({InsertSorted(front, variants[Len(variants)]) :
               front \in {SortVariants(SubSeq(variants, 1, Len(variants) - 1))}})

\* the variant dictionaries of a parsed playlist, before the sort
ExtractVariants(url, playlists) ==
  [i \in 1..Len(playlists) |->
     [url |-> urljoin(url, playlists[i].uri),
      bandwidth |-> playlists[i].bandwidth,
      audio |-> playlists[i].audio]]

NoInfo == [variants |-> <<>>, is_master |-> FALSE, master_url |-> <<>>]

\* parse_hls_playlist(url): ok = FALSE stands for the None it returns on
\* any exception; call is the GET it made
parse_hls_playlist(url, up, calls) ==
  Only({IF call.outcome # "response" \/ call.status >= 400
          THEN [ok |-> FALSE, info |-> NoInfo, call |-> call]
        ELSE
          Only({IF ~playlist.ok THEN [ok |-> FALSE, info |-> NoInfo, call |-> call]
                ELSE Only({[ok |-> TRUE,
                            info |-> [variants |-> variants,
                                      is_master |-> Len(variants) > 0,
                                      master_url |-> url],
                            call |-> call] :
                             variants \in {SortVariants(
                                             ExtractVariants(url, playlist.playlists))}}) :
                  playlist \in {m3u8_loads(PlaylistText(up.site, url))}}) :
          call \in {Call("GET", "parse_hls_playlist", url, None, Fetch(up, url, calls))}})

\* ------------------------------------------------------------------ responses

NoResp == [status |-> 0, kind |-> "none", ctype |-> NoHeader, cache |-> NoHeader,
           text |-> <<>>, variant |-> <<>>, enriched |-> FALSE]

\* abort(status) and the error handlers, which keep the status
Abort(status) == [NoResp EXCEPT !.status = status, !.kind = "error"]

\* what a handler leaves behind: the response, the upstream calls it made, the
\* state of the streamed upstream response ("none", "open", "closed"), the
\* upstream body a generator will relay, the manifest levels it resolved and
\* the URL whose content it serves
Outcome(resp, calls, conn, pending, trail, served) ==
  [resp |-> resp, calls |-> calls, conn |-> conn, pending |-> pending,
   trail |-> trail, served |-> served]

\* ------------------------------------------------------------------ stream_hls

Truthy(s) == s # None /\ s # ""

RECURSIVE FirstMatch(_, _, _)
FirstMatch(variants, quality, i) ==
  IF i > Len(variants) THEN 0
  ELSE IF Str(variants[i].bandwidth) = quality THEN i
  ELSE FirstMatch(variants, quality, i + 1)

\* the index of the selected variant, 0 when selected is None
SelectVariant(variants, quality) ==
  IF Truthy(quality) THEN FirstMatch(variants, quality, 1) ELSE 1

\* 'mpegurl' in content_type
HasMpegurl(content_type) == content_type \in {"application/vnd.apple.mpegurl"}

\* the loop body of the rewrite: one line of the playlist
RewriteLine(url, raw) ==
  Only({IF line # <<>> /\ ~StartsWithHash(line)
          THEN Only({<<"/stream?url=">> \o quote(absolute_url) :
                       absolute_url \in {urljoin(url, line)}})
        ELSE line :
          line \in {Strip(raw)}})

\* Rewrite that leaves out the lines that are blank once stripped
Rewrite_SkipBlank(url, playlist_content) ==
  Only({Join([i \in 1..Len(kept) |-> RewriteLine(url, kept[i])], NL) :
          kept \in {SelectSeq(Split(playlist_content, NL), LAMBDA l : Strip(l) # <<>>)}})

\* split('\n'), rewrite every line, '\n'.join
Rewrite(url, playlist_content) ==
  Only({Only({Join(rewritten_lines, NL) :
                rewritten_lines \in {[i \in 1..Len(lines) |-> RewriteLine(url, lines[i])]}}) :
          lines \in {Split(playlist_content, NL)}})

\* the part of stream_hls behind the variant selection: fetch url and serve it
ServeHls(url, up, calls) ==
  Only({IF f.outcome # "response"
          THEN Outcome(Abort(502), calls2, "none", <<>>, <<>>, <<>>)
        ELSE IF f.status \notin {200, 206}
          THEN Outcome(Abort(502), calls2, "open", <<>>, <<>>, <<>>)
        ELSE IF HasMpegurl(content_type) \/ EndsWith(url, <<".m3u8">>)
          THEN Outcome([NoResp EXCEPT !.status = 200, !.kind = "playlist",
                                      !.ctype = content_type, !.cache = "no-cache",
                                      !.text = Rewrite(url, PlaylistText(up.site, url))],
                       calls2, "closed", <<>>, <<>>, url)
        ELSE Outcome([NoResp EXCEPT !.status = 200, !.kind = "relay",
                                    !.ctype = content_type,
                                    !.cache = "max-age=31536000"],
                     calls2, "open", up.body, <<>>, url) :
          f \in {Fetch(up, url, calls)},
          calls2 \in {Append(calls, Call("GET", "stream_hls", url, None,
                                         Fetch(up, url, calls)))},
          content_type \in {IF up.ctype = NoHeader THEN "application/vnd.apple.mpegurl"
                            ELSE up.ctype}})

\* stream_hls(url, quality); depth counts the nested calls
RECURSIVE stream_hls(_, _, _, _, _)
stream_hls(url, quality, up, calls, depth) ==
  IF depth > MaxDepth
    THEN Outcome(Abort(IF up.deep = "parse" THEN 400 ELSE 500), calls, "none",
                 <<>>, <<>>, <<>>)
  ELSE
    Only({IF ~p.ok
            THEN Outcome(Abort(400), Append(calls, p.call), "none", <<>>, <<>>, <<>>)
          ELSE
            Only({Only({[below EXCEPT
                           !.trail = <<[url |-> url, is_master |-> p.info.is_master,
                                        variants |-> p.info.variants,
                                        selected |-> selected]>> \o @] :
                          below \in {IF selected # 0
                                       THEN stream_hls(p.info.variants[selected].url, None,
                                                       up, calls1, depth + 1)
                                     ELSE ServeHls(url, up, calls1)}}) :
                    selected \in {IF p.info.is_master /\ p.info.variants # <<>>
                                    THEN SelectVariant(p.info.variants, quality) ELSE 0},
                    calls1 \in {Append(calls, p.call)}}) :
            p \in {parse_hls_playlist(url, up, calls)}})

\* ------------------------------------------------------------------ stream_direct, download

\* stream_direct without the copy of the Range header
UpstreamRange_Dropped(range_header) == None

\* the Range header of the upstream request of stream_direct
UpstreamRange(range_header) == IF Truthy(range_header) THEN range_header ELSE None

\* the size check with >= in place of >
ExceedsCeiling_OffByOne(clen) ==
  /\ clen # NoHeader
  /\ IsNumeral(clen)
  /\ IntOf(clen) >= MAX_FILE_SIZE

\* int(headers.get('Content-Length', 0)) > MAX_FILE_SIZE, ValueError passed over
ExceedsCeiling(clen) ==
  /\ clen # NoHeader
  /\ IsNumeral(clen)
  /\ IntOf(clen) > MAX_FILE_SIZE

\* status_code of stream_direct
DirectStatus(upstream_status) ==
  IF upstream_status \in {200, 206} THEN upstream_status ELSE 200

stream_direct(url, range_header, up) ==
  LET f     == Fetch(up, url, <<>>)
      calls == <<Call("GET", "stream_direct", url, UpstreamRange(range_header), f)>>
  IN  IF f.outcome = "timeout" THEN Outcome(Abort(504), calls, "none", <<>>, <<>>, <<>>)
      ELSE IF f.outcome # "response"
        THEN Outcome(Abort(502), calls, "none", <<>>, <<>>, <<>>)
      ELSE IF ExceedsCeiling(up.clen)
        THEN Outcome(Abort(413), calls, "open", <<>>, <<>>, <<>>)
      ELSE Outcome([NoResp EXCEPT !.status = DirectStatus(f.status), !.kind = "relay",
                                  !.ctype = IF up.ctype = NoHeader
                                              THEN "application/octet-stream"
                                            ELSE up.ctype,
                                  !.cache = "no-cache"],
                   calls, "open", up.body, <<>>, url)

\* the Range header of the upstream request of download
DownloadRange(range_header) == None

\* the body of download behind the URL checks
DownloadRelay(url, range_header, up) ==
  LET f     == Fetch(up, url, <<>>)
      calls == <<Call("GET", "download", url, DownloadRange(range_header), f)>>
  IN  IF f.outcome = "timeout" THEN Outcome(Abort(504), calls, "none", <<>>, <<>>, <<>>)
      ELSE IF f.outcome # "response"
        THEN Outcome(Abort(502), calls, "none", <<>>, <<>>, <<>>)
      ELSE IF f.status \notin {200, 206}
        THEN Outcome(Abort(502), calls, "open", <<>>, <<>>, <<>>)
      ELSE IF ExceedsCeiling(up.clen)
        THEN Outcome(Abort(413), calls, "open", <<>>, <<>>, <<>>)
      ELSE Outcome([NoResp EXCEPT !.status = 200, !.kind = "relay",
                                  !.ctype = IF up.ctype = NoHeader THEN "video/mp4"
                                            ELSE up.ctype,
                                  !.cache = "no-cache"],
                   calls, "open", up.body, <<>>, url)

\* ------------------------------------------------------------------ the routes

\* /stream
stream(url, quality, range_header, up) ==
  IF ~is_valid_url(url) THEN Outcome(Abort(400), <<>>, "none", <<>>, <<>>, <<>>)
  ELSE IF is_hls_url(url) THEN stream_hls(url, quality, up, <<>>, 1)
  ELSE stream_direct(url, range_header, up)

\* /download
download(url, range_header, up) ==
  IF ~is_valid_url(url) THEN Outcome(Abort(400), <<>>, "none", <<>>, <<>>, <<>>)
  ELSE IF is_hls_url(url) THEN Outcome(Abort(400), <<>>, "none", <<>>, <<>>, <<>>)
  ELSE DownloadRelay(url, range_header, up)

\* get_ffprobe_info and the use validate makes of it: "none" (no data, the
\* fields are left out), "fields" (streams added) or "raises" (eval of a frame
\* rate such as 0/0 raises inside validate)
ProbeResult(probe) ==
  CASE probe \in {"absent", "nonzero", "timeout", "raises"} -> "none"
    [] probe = "nostreams" -> "none"
    [] probe = "badrate" -> "raises"
    [] OTHER -> "fields"

\* /api/validate
validate(url, up) ==
  IF ~is_valid_url(url) THEN Outcome(Abort(400), <<>>, "none", <<>>, <<>>, <<>>)
  ELSE IF is_hls_url(url)
    THEN Only({IF hls.ok
                 THEN Outcome([NoResp EXCEPT !.status = 200, !.kind = "json"],
                              <<hls.call>>, "none", <<>>,
                              <<[url |-> url, is_master |-> hls.info.is_master,
                                 variants |-> hls.info.variants, selected |-> 0]>>, <<>>)
               ELSE Outcome(Abort(400), <<hls.call>>, "none", <<>>, <<>>, <<>>) :
                 hls \in {parse_hls_playlist(url, up, <<>>)}})
  ELSE
    LET f     == Fetch(up, url, <<>>)
        head  == Call("HEAD", "validate", url, None, f)
        probe == Call("probe", "get_ffprobe_info", url, None,
                      [outcome |-> up.probe, net |-> up.probe # "absent", status |-> 0])
    IN  IF f.outcome # "response"
          THEN Outcome(Abort(502), <<head>>, "none", <<>>, <<>>, <<>>)
        ELSE IF f.status \notin {200, 206}
          THEN Outcome(Abort(400), <<head>>, "none", <<>>, <<>>, <<>>)
        ELSE IF ProbeResult(up.probe) = "raises"
          THEN Outcome(Abort(500), <<head, probe>>, "none", <<>>, <<>>, <<>>)
        ELSE Outcome([NoResp EXCEPT !.status = 200, !.kind = "json",
                                    !.enriched = (ProbeResult(up.probe) = "fields")],
                     <<head, probe>>, "none", <<>>, <<>>, <<>>)

\* the loop of get_audio_variant: index of the first variant of the audio
\* group, 0 when there is none
RECURSIVE FirstAudio(_, _, _)
FirstAudio(variants, audio_lang, i) ==
  IF i > Len(variants) THEN 0
  ELSE IF variants[i].audio = audio_lang THEN i
  ELSE FirstAudio(variants, audio_lang, i + 1)

\* the JSON body of get_audio_variant: url, bandwidth (and resolution) only
VariantJson(v) == [url |-> v.url, bandwidth |-> v.bandwidth]

\* /api/get-audio-variant; an abort inside its try block is caught by its
\* own except clause and answered 502
get_audio_variant(url, audio_lang, up) ==
  IF url = <<>> \/ audio_lang = ""
    THEN Outcome(Abort(400), <<>>, "none", <<>>, <<>>, <<>>)
  ELSE
    Only({Only({IF ~hls.ok
                  THEN Outcome(Abort(502), <<hls.call>>, "none", <<>>, <<>>, <<>>)
                ELSE IF level.selected # 0
                  THEN Outcome([NoResp EXCEPT
                                  !.status = 200, !.kind = "json",
                                  !.variant = <<VariantJson(
                                                  hls.info.variants[level.selected])>>],
                               <<hls.call>>, "none", <<>>, <<level>>, <<>>)
                ELSE IF hls.info.variants # <<>>
                  THEN Outcome([NoResp EXCEPT
                                  !.status = 200, !.kind = "json",
                                  !.variant = <<VariantJson(hls.info.variants[1])>>],
                               <<hls.call>>, "none", <<>>, <<level>>, <<>>)
                ELSE Outcome(Abort(502), <<hls.call>>, "none", <<>>, <<level>>, <<>>) :
                  level \in {[url |-> url, is_master |-> hls.info.is_master,
                              variants |-> hls.info.variants,
                              selected |-> FirstAudio(hls.info.variants, audio_lang, 1)]}}) :
            hls \in {parse_hls_playlist(url, up, <<>>)}})

\* ------------------------------------------------------------------ the environment of one request

FirstFetch == {a \in Anomalies : a.at = 1}

WithAnomaly(w, a) == [w EXCEPT !.at = a.at, !.fault = a.fault, !.status = a.status]

\* upstream as a direct URL meets it
DirectWorlds ==
  {[WithAnomaly(DefaultUp, a) EXCEPT !.clen = c, !.ctype = t] :
     a \in FirstFetch, c \in ContentLengths,
     t \in {NoHeader, "application/vnd.apple.mpegurl", "video/mp2t"}}

\* upstream as a manifest URL meets it
HlsWorlds ==
  {[WithAnomaly(DefaultUp, a) EXCEPT !.site = s, !.ctype = t, !.deep = d] :
     a \in Anomalies, s \in Sites, t \in ContentTypes, d \in {"parse", "handler"}}
  \ {w \in [site : Sites, at : 1..MaxFetch, fault : {"none", "timeout", "connerr"},
            status : Statuses, ctype : ContentTypes, clen : {NoHeader},
            body : {<<>>}, probe : {"absent"}, deep : {"handler"}] : w.site # "cycle"}

\* upstream as the single fetch of a manifest meets it
ParseWorlds ==
  {[WithAnomaly(DefaultUp, a) EXCEPT !.site = s] : a \in FirstFetch, s \in Sites}

ProbeWorlds ==
  {[WithAnomaly(DefaultUp, a) EXCEPT !.probe = p] : a \in FirstFetch, p \in ProbeOutcomes}

\* ------------------------------------------------------------------ state

VARIABLES
  pc,       \* "idle", "streaming" (a generator relays the body), "done"
  req,      \* the request: endpoint, url, quality, range, audio
  up,       \* how upstream behaves during this request
  resp,     \* the response sent to the client
  calls,    \* the upstream calls made for this request, in order
  conn,     \* the streamed upstream response: "none", "open", "closed"
  gen,      \* the body generator: "none", "created", "running", "closed"
  pending,  \* the upstream chunks not read yet
  sent,     \* the chunks delivered to the client
  trail,    \* the manifest levels resolved, outermost first
  served    \* the URL whose content is served

vars == <<pc, req, up, resp, calls, conn, gen, pending, sent, trail, served>>

NoReq == [endpoint |-> "none", url |-> <<>>, quality |-> None, range |-> None,
          audio |-> ""]

Init ==
  /\ pc = "idle"
  /\ req = NoReq
  /\ up = DefaultUp
  /\ resp = NoResp
  /\ calls = <<>>
  /\ conn = "none"
  /\ gen = "none"
  /\ pending = <<>>
  /\ sent = <<>>
  /\ trail = <<>>
  /\ served = <<>>

\* the handler ran on request r against upstream w and left o; the upstream
\* body matters only when a generator is left to relay it
Handled(r, w, o) ==
  \E b \in (IF o.resp.kind = "relay" THEN Bodies ELSE {<<>>}) :
    /\ req' = r
    /\ up' = [w EXCEPT !.body = b]
    /\ resp' = o.resp
    /\ calls' = o.calls
    /\ conn' = o.conn
    /\ pending' = b
    /\ trail' = o.trail
    /\ served' = o.served
    /\ sent' = <<>>
    /\ gen' = IF o.resp.kind = "relay" THEN "created" ELSE "none"
    /\ pc' = IF o.resp.kind = "relay" THEN "streaming" ELSE "done"

\* the worlds that matter to a /stream request for url
StreamWorlds(url) ==
  IF ~is_valid_url(url) THEN {DefaultUp}
  ELSE IF is_hls_url(url) THEN HlsWorlds ELSE DirectWorlds

Validate ==
  /\ pc = "idle"
  /\ \E url \in ClientURLs :
       \E w \in (IF ~is_valid_url(url) THEN {DefaultUp}
                 ELSE IF is_hls_url(url) THEN ParseWorlds ELSE ProbeWorlds) :
         \E o \in {validate(url, w)} :
           Handled([NoReq EXCEPT !.endpoint = "validate", !.url = url], w, o)

Stream ==
  /\ pc = "idle"
  /\ \E url \in ClientURLs :
       \E w \in StreamWorlds(url) :
         \E quality \in (IF is_hls_url(url) THEN Qualities ELSE {None}),
            range \in (IF is_hls_url(url) THEN {None} ELSE ClientRanges) :
           \E o \in {stream(url, quality, range, w)} :
             Handled([NoReq EXCEPT !.endpoint = "stream", !.url = url,
                                   !.quality = quality, !.range = range], w, o)

Download ==
  /\ pc = "idle"
  /\ \E url \in ClientURLs, range \in ClientRanges :
       \E w \in (IF is_valid_url(url) /\ ~is_hls_url(url) THEN DirectWorlds
                 ELSE {DefaultUp}) :
         \E o \in {download(url, range, w)} :
           Handled([NoReq EXCEPT !.endpoint = "download", !.url = url,
                                 !.range = range], w, o)

GetAudioVariant ==
  /\ pc = "idle"
  /\ \E url \in ClientURLs, audio \in AudioIds :
       \E w \in (IF url = <<>> \/ audio = "" THEN {DefaultUp} ELSE ParseWorlds) :
         \E o \in {get_audio_variant(url, audio, w)} :
           Handled([NoReq EXCEPT !.endpoint = "audio", !.url = url, !.audio = audio],
                   w, o)

\* RelayChunk without the test of the chunk: an empty chunk is yielded too
RelayChunk_KeepEmpty ==
  /\ pc = "streaming"
  /\ pending # <<>>
  /\ gen' = "running"
  /\ pending' = Tail(pending)
  /\ sent' = Append(sent, Head(pending))
  /\ UNCHANGED <<pc, req, up, resp, calls, conn, trail, served>>

\* the generator is asked for its next chunk and upstream has one
RelayChunk ==
  /\ pc = "streaming"
  /\ pending # <<>>
  /\ gen' = "running"
  /\ pending' = Tail(pending)
  /\ sent' = IF Head(pending) # "" THEN Append(sent, Head(pending)) ELSE sent
  /\ UNCHANGED <<pc, req, up, resp, calls, conn, trail, served>>

\* the upstream body is exhausted: the finally clause closes the response
RelayEnd ==
  /\ pc = "streaming"
  /\ pending = <<>>
  /\ gen' = "closed"
  /\ conn' = "closed"
  /\ pc' = "done"
  /\ UNCHANGED <<req, up, resp, calls, pending, sent, trail, served>>

\* iter_content raises: the except clause logs, the finally clause closes
UpstreamReadError ==
  /\ pc = "streaming"
  /\ gen' = "closed"
  /\ conn' = "closed"
  /\ pc' = "done"
  /\ UNCHANGED <<req, up, resp, calls, pending, sent, trail, served>>

\* the client goes away and the server closes the generator: a generator
\* that was never started runs none of its body, its finally clause included
ClientDisconnect ==
  /\ pc = "streaming"
  /\ gen' = "closed"
  /\ conn' = IF gen = "running" THEN "closed" ELSE conn
  /\ pc' = "done"
  /\ UNCHANGED <<req, up, resp, calls, pending, sent, trail, served>>

\* the request is over; the next one starts from nothing (no state is shared)
Finish ==
  /\ pc = "done"
  /\ pc' = "idle"
  /\ req' = NoReq
  /\ up' = DefaultUp
  /\ resp' = NoResp
  /\ calls' = <<>>
  /\ conn' = "none"
  /\ gen' = "none"
  /\ pending' = <<>>
  /\ sent' = <<>>
  /\ trail' = <<>>
  /\ served' = <<>>

Next ==
  \/ Validate
  \/ Stream
  \/ Download
  \/ GetAudioVariant
  \/ RelayChunk
  \/ RelayEnd
  \/ UpstreamReadError
  \/ ClientDisconnect
  \/ Finish

Spec == Init /\ [][Next]_vars

\* ------------------------------------------------------------------ properties

\* the request has been handled
Answered == pc # "idle"

\* the input is not an http(s) URL with a host
BadInput(url) ==
  \/ url = <<>>
  \/ urlparse(url, "").scheme \notin {"http", "https"}
  \/ hostname(urlparse(url, "").netloc) = <<>>

\* C1: an input URL that is empty, has a scheme other than http/https or has
\* an empty host is answered 400 by /api/validate, /stream and /download, and
\* no upstream call (HEAD, GET, probe) is made for it.
C1_RejectedBeforeNetwork ==
  (Answered /\ req.endpoint \in {"validate", "stream", "download"} /\ BadInput(req.url))
    => (resp.status = 400 /\ NetCount(calls) = 0)

\* the call that fetched the resource /stream serves
ServingCall(c) == c.via \in {"stream_direct", "stream_hls"} /\ c.outcome = "response"

\* the declared length of the upstream response is above the ceiling
DeclaredTooLarge == up.clen \in {"10241", "20000"}

\* C2: on /stream the client's status is a function of the upstream status:
\* 200 and 206 are passed on as they are, every other upstream status is
\* answered 502.
C2_StatusPolicy ==
  (Answered /\ req.endpoint = "stream" /\ calls # <<>>
     /\ ServingCall(calls[Len(calls)]) /\ ~DeclaredTooLarge)
    => LET upstream == calls[Len(calls)].status
       IN  IF upstream \in {200, 206} THEN resp.status = upstream
           ELSE resp.status = 502

\* the relay (stream_direct or download) received an upstream response that
\* declares a numeric Content-Length
DeclaredLength ==
  /\ Answered
  /\ req.endpoint \in {"stream", "download"}
  /\ calls # <<>>
  /\ calls[1].via \in {"stream_direct", "download"}
  /\ calls[1].outcome = "response"
  /\ IsNumeral(up.clen)

NothingForwarded == sent = <<>> /\ pc = "done" /\ gen = "none"

\* C3 as stated: a declared length above the ceiling always ends in 413 with
\* nothing forwarded, a declared length within the ceiling never in 413.
C3_Original ==
  DeclaredLength =>
    IF IntOf(up.clen) > MAX_FILE_SIZE
      THEN resp.status = 413 /\ NothingForwarded
    ELSE resp.status # 413

\* C3 (amended): on /stream for a direct URL, and on /download when upstream
\* answered 200 or 206, a declared numeric Content-Length above MAX_FILE_SIZE
\* ends the request with 413 and nothing forwarded; on /download any other
\* upstream status is answered 502 first, also with nothing forwarded; a
\* declared length equal to or below the ceiling never ends in 413.
C3_SizeCeiling ==
  DeclaredLength =>
    IF IntOf(up.clen) > MAX_FILE_SIZE
      THEN /\ NothingForwarded
           /\ resp.status =
                IF req.endpoint = "download" /\ calls[1].status \notin {200, 206}
                  THEN 502 ELSE 413
    ELSE resp.status # 413

C3_Witness ==
  /\ DeclaredLength
  /\ req.endpoint = "download"
  /\ up.clen = "10241"
  /\ resp.status = 413

\* the URL ends in the manifest extension, in whatever case
ManifestURL(url) == url # <<>> /\ LowerTok(url[Len(url)]) = ".m3u8"

C5_TimeoutIs504 ==
  (Answered /\ req.endpoint \in {"stream", "download"}
     /\ \E i \in 1..Len(calls) : calls[i].outcome = "timeout")
    => resp.status = 504

\* /stream resolved the requested URL to a Master manifest
MasterRequested ==
  /\ Answered
  /\ req.endpoint = "stream"
  /\ trail # <<>>
  /\ trail[1].is_master

\* the variant C6 expects: the first one whose bandwidth prints as the
\* quality token, index 1 (the highest bandwidth) when there is none
ExpectedVariant(variants, quality) ==
  LET matches == {i \in 1..Len(variants) : Str(variants[i].bandwidth) = quality}
  IN  IF quality # None /\ matches # {}
        THEN CHOOSE i \in matches : \A j \in matches : i <= j
      ELSE 1

\* C6: for a Master manifest /stream selects the first variant whose bandwidth
\* equals the quality token, and the variant at index 0 when no quality is
\* given or none matches; the playlist served is never the Master itself.
C6_VariantSelection ==
  MasterRequested =>
    /\ trail[1].selected = ExpectedVariant(trail[1].variants, req.quality)
    /\ resp.kind = "playlist" => served # trail[1].url

Resolutions == Cardinality({i \in 1..Len(calls) : calls[i].via = "parse_hls_playlist"})

\* C7: one /stream request resolves at most two manifests, and a selected
\* variant that is itself a Master manifest ends the request with an error.
C7_BoundedResolution ==
  (Answered /\ req.endpoint = "stream")
    => /\ Resolutions <= 2
       /\ (Len(trail) >= 2 /\ trail[2].is_master) => resp.status >= 400

\* the lookup answered with a variant
AudioAnswered ==
  /\ Answered
  /\ req.endpoint = "audio"
  /\ resp.status = 200
  /\ trail # <<>>

\* no variant of the manifest belongs to audio group a
NoAudioMatch(variants, a) == \A i \in 1..Len(variants) : variants[i].audio # a

\* C8: the audio lookup answers with the first variant of the requested audio
\* group, with the variant at index 0 when there is none, and the answer of a
\* fallback differs from the answer of an exact match of variant 0 on the
\* same manifest.
C8_FallbackDistinguishable ==
  AudioAnswered =>
    LET variants == trail[1].variants
        matches  == {i \in 1..Len(variants) : variants[i].audio = req.audio}
    IN  /\ resp.variant =
             <<VariantJson(variants[IF matches = {} THEN 1
                                    ELSE CHOOSE i \in matches : \A j \in matches : i <= j])>>
        /\ matches # {} /\ 1 \in matches =>
             \A other \in AudioIds \ {""} :
               NoAudioMatch(variants, other) =>
                 get_audio_variant(req.url, other, up).resp # resp

\* a rewritten playlist is being served: its base URL, the lines upstream
\* sent and the lines the client gets
PlaylistServed == Answered /\ req.endpoint = "stream" /\ resp.kind = "playlist"

LinesIn == Split(PlaylistText(up.site, served), NL)

LinesOut == Split(resp.text, NL)

\* the directory of a URL: everything up to its last slash
RECURSIVE DirOf(_)
DirOf(url) ==
  IF url = <<>> \/ url[Len(url)] = "/" THEN url ELSE DirOf(SubSeq(url, 1, Len(url) - 1))

\* a reference that is a complete http(s) URL already
AbsoluteRef(ref) ==
  /\ Len(ref) > 4
  /\ ref[1] \in {"http", "https"}
  /\ SubSeq(ref, 2, 4) = <<":", "/", "/">>

\* a reference with a scheme or an authority of its own
HasSchemeOrAuthority(ref) ==
  \/ Len(ref) >= 2 /\ ref[2] = ":"
  \/ Len(ref) >= 2 /\ ref[1] = "/" /\ ref[2] = "/"

\* a plain relative path: no scheme, no leading slash, no dot segment
PlainRelativeRef(ref) ==
  /\ ref # <<>>
  /\ ~HasSchemeOrAuthority(ref)
  /\ ref[1] \notin {"/", "?"}
  /\ \A i \in 1..Len(ref) : ref[i] \notin {"..", "."}

\* the characters quote must not leave as they are
Reserved == {":", "/", "?", "@", " ", "\r", "\t", "#"}

\* out is the proxy path of ref resolved against base
ProxiedAs(out, base, ref) ==
  /\ out # <<>>
  /\ out[1] = "/stream?url="
  /\ \A i \in 2..Len(out) : out[i] \notin Reserved
  /\ unquote(Tail(out)) = urljoin(base, ref)
  /\ AbsoluteRef(ref) => unquote(Tail(out)) = ref

\* C9 as stated: every line that is non-empty and does not start with '#' is
\* replaced by the proxy path of the line resolved against the base URL;
\* decoding the parameter yields the resolved URL, a relative reference
\* resolves under the base's directory, an absolute one is carried unchanged.
C9_Original ==
  PlaylistServed =>
    /\ Len(LinesOut) = Len(LinesIn)
    /\ \A i \in 1..Len(LinesIn) :
         (LinesIn[i] # <<>> /\ ~StartsWithHash(LinesIn[i])) =>
           /\ ProxiedAs(LinesOut[i], served, LinesIn[i])
           /\ ~HasSchemeOrAuthority(LinesIn[i]) =>
                unquote(Tail(LinesOut[i])) = DirOf(served) \o LinesIn[i]

\* C9 (amended): every line that, stripped of surrounding whitespace, is
\* non-empty and does not start with '#' is replaced by '/stream?url=' and the
\* percent-encoding (no character left safe) of the stripped line resolved
\* against the base URL; decoding the parameter yields the resolved URL, a
\* plain relative path (no leading slash, no dot segment) resolves under the
\* base's directory, an absolute http(s) reference is carried unchanged.
C9_Rewrite ==
  PlaylistServed =>
    /\ Len(LinesOut) = Len(LinesIn)
    /\ \A i \in 1..Len(LinesIn) :
         LET ref == Strip(LinesIn[i])
         IN  (ref # <<>> /\ ~StartsWithHash(ref)) =>
               /\ ProxiedAs(LinesOut[i], served, ref)
               /\ PlainRelativeRef(ref) =>
                    unquote(Tail(LinesOut[i])) = DirOf(served) \o ref

\* a playlist with a relative and an absolute reference has been rewritten
C9_Witness ==
  /\ PlaylistServed
  /\ \E i \in 1..Len(LinesIn) : PlainRelativeRef(Strip(LinesIn[i]))
  /\ \E i \in 1..Len(LinesIn) : AbsoluteRef(Strip(LinesIn[i]))
  /\ \E i \in 1..Len(LinesOut) : LinesOut[i] # <<>> /\ LinesOut[i][1] = "/stream?url="

\* the upstream request of a relay
RelayCall(via) == Answered /\ calls # <<>> /\ calls[1].via = via

\* C10 as stated: stream_direct sends a Range header upstream exactly when
\* the client sent one, with the client's value; download never sends one.
C10_Original ==
  /\ RelayCall("stream_direct") => calls[1].range = req.range
  /\ RelayCall("download") => calls[1].range = None

\* C10 (amended): stream_direct sends a Range header upstream exactly when
\* the client sent one with a non-empty value, and then with the client's
\* value; download never sends one, whatever the client sent.
C10_RangeForwarding ==
  /\ RelayCall("stream_direct") =>
       calls[1].range = IF req.range \in {None, ""} THEN None ELSE req.range
  /\ RelayCall("download") => calls[1].range = None

C10_Witness ==
  /\ RelayCall("stream_direct")
  /\ req.range = "bytes=0-99"
  /\ calls[1].range = "bytes=0-99"
  /\ calls[1].net

\* /api/validate went past the HEAD of a direct URL: upstream answered 200 or 206
HeadSucceeded ==
  /\ Answered
  /\ req.endpoint = "validate"
  /\ calls # <<>>
  /\ calls[1].m = "HEAD"
  /\ calls[1].outcome = "response"
  /\ calls[1].status \in {200, 206}

\* C11: on /api/validate for a direct URL whose HEAD answered 200 or 206 the
\* response is 200 (valid) whatever the metadata probe does: absent, non-zero
\* exit, timeout, exception or data; the enrichment fields are present only
\* when the probe returned stream data.
C11_ProbeNeverFails ==
  HeadSucceeded =>
    /\ resp.status = 200
    /\ resp.kind = "json"
    /\ resp.enriched => up.probe = "data"

\* the statuses the error taxonomy maps
MappedStatuses == {200, 206, 400, 413, 502, 504}

\* C12: every request to /api/validate, /stream, /download and
\* /api/get-audio-variant ends with a status of {200, 206, 400, 413, 502, 504};
\* no exception leaves a handler as an unclassified server error (500).
C12_MappedStatus ==
  (Answered /\ req.endpoint \in {"validate", "stream", "download", "audio"})
    => resp.status \in MappedStatuses

\* C13: every URL handed to an upstream fetch (requests.get, requests.head,
\* the probe) while a request is handled has scheme http or https and a
\* non-empty host, whichever endpoint the request came through and whether
\* the URL is the client's or a variant URL of a Master manifest.
C13_FetchedURLsValid ==
  Answered => \A i \in 1..Len(calls) : ~BadInput(calls[i].url)

\* C14: every upstream response that /stream or /download opened with
\* streaming enabled is closed when the request has ended, on every exit
\* path: end of body, upstream read error, client disconnect (also before the
\* first chunk), size-ceiling abort (413), unexpected-status abort (502).
C14_ConnectionReleased ==
  (pc = "done" /\ req.endpoint \in {"stream", "download"}) => conn # "open"

\* the sub-stream entries of the manifest upstream serves at url, in the
\* order of the manifest
Entries(url) == m3u8_loads(PlaylistText(up.site, url)).playlists

\* the bandwidth a variant is ordered by, a missing one counted as 0
KeyOf(bandwidth) == IF bandwidth = NoBandwidth THEN 0 ELSE bandwidth

\* the position of entry i in a stable ordering by non-increasing bandwidth
Rank(entries, i) ==
  1 + Cardinality({j \in 1..Len(entries) :
                     \/ KeyOf(entries[j].bandwidth) > KeyOf(entries[i].bandwidth)
                     \/ /\ KeyOf(entries[j].bandwidth) = KeyOf(entries[i].bandwidth)
                        /\ j < i})

\* upstream with the manifests unchanged and no transport anomaly
SameUpstream(w) == [w EXCEPT !.at = 1, !.fault = "none", !.status = 200]

\* C15: the variant list of every resolved manifest is a permutation of the
\* manifest's sub-stream entries in order of non-increasing bandwidth (a
\* missing bandwidth counted as 0), entries of equal bandwidth in the order of
\* the manifest; resolving the unchanged manifest again yields the same list.
C15_StableSort ==
  \A k \in 1..Len(trail) :
    LET entries  == Entries(trail[k].url)
        variants == trail[k].variants
    IN  /\ Len(variants) = Len(entries)
        /\ \A i \in 1..Len(entries) :
             variants[Rank(entries, i)] =
               [url |-> urljoin(trail[k].url, entries[i].uri),
                bandwidth |-> entries[i].bandwidth,
                audio |-> entries[i].audio]
        /\ \A i \in 1..Len(variants) - 1 :
             KeyOf(variants[i].bandwidth) >= KeyOf(variants[i + 1].bandwidth)
        /\ parse_hls_playlist(trail[k].url, SameUpstream(up), <<>>).info.variants = variants

\* a manifest with two variants of equal bandwidth and one without bandwidth
\* has been resolved
C15_Witness ==
  /\ trail # <<>>
  /\ Len(trail[1].variants) = 3
  /\ trail[1].variants[1].bandwidth = trail[1].variants[2].bandwidth
  /\ trail[1].variants[1].url # trail[1].variants[2].url
  /\ trail[1].variants[3].bandwidth = NoBandwidth

\* the line is a proxy path
IsProxyPath(line) == line # <<>> /\ line[1] = "/stream?url="

\* the line holds a URI: stripped, it is non-empty and no directive or comment
IsURILine(raw) == Strip(raw) # <<>> /\ ~StartsWithHash(Strip(raw))

\* out is what input line raw alone determines: the line without its
\* surrounding whitespace, or the proxy path of the reference it holds
DerivedFrom(out, base, raw) ==
  IF IsURILine(raw) THEN ProxiedAs(out, base, Strip(raw)) ELSE out = Strip(raw)

\* C16: the rewritten playlist has as many lines as the input, and output
\* line i is determined by input line i alone: a proxy path exactly where the
\* input holds a URI, directly behind the directive that precedes it; no line
\* is dropped, inserted or reordered.
C16_LineStructure ==
  PlaylistServed =>
    /\ Len(LinesOut) = Len(LinesIn)
    /\ \A i \in 1..Len(LinesIn) :
         /\ DerivedFrom(LinesOut[i], served, LinesIn[i])
         /\ IsProxyPath(LinesOut[i]) <=> IsURILine(LinesIn[i])
         /\ StartsWithHash(LinesOut[i]) <=> StartsWithHash(Strip(LinesIn[i]))

\* a playlist with a blank line, a whitespace-only line and a URI behind a
\* directive has been rewritten
C16_Witness ==
  /\ PlaylistServed
  /\ \E i \in 1..Len(LinesIn) : LinesIn[i] # <<>> /\ Strip(LinesIn[i]) = <<>>
  /\ \E i \in 2..Len(LinesIn) :
       /\ StartsWithHash(LinesOut[i - 1])
       /\ IsProxyPath(LinesOut[i])
       /\ \E j \in i + 1..Len(LinesIn) : Strip(LinesIn[j]) = <<>>

\* C17: every line of the input that holds no URI (a directive, a comment, a
\* blank line, also one with surrounding whitespace or a trailing carriage
\* return) appears in the output identical to the input line.
C17_NonURILinesUnchanged ==
  PlaylistServed =>
    \A i \in 1..Len(LinesIn) :
      ~IsURILine(LinesIn[i]) => (i <= Len(LinesOut) /\ LinesOut[i] = LinesIn[i])

\* the chunks of an upstream body that carry data
NonEmpty(body) == SelectSeq(body, LAMBDA c : c # "")

IsPrefix(a, b) == Len(a) <= Len(b) /\ SubSeq(b, 1, Len(a)) = a

\* a generator of stream_direct or download relays, or has relayed, the body
Relaying ==
  /\ pc \in {"streaming", "done"}
  /\ resp.kind = "relay"
  /\ calls # <<>>
  /\ calls[1].via \in {"stream_direct", "download"}

\* C18: at every point of a relay of /stream (direct) or /download the chunks
\* delivered to the client are a prefix of the non-empty chunks upstream sent,
\* in their order and unaltered; each step of the relay delivers at most the
\* next chunk and leaves the status as it is; the step that ends the relay
\* (end of body, upstream read error, disconnect) delivers nothing, and after
\* it nothing is delivered any more.
C18_RelayOrder ==
  /\ [](Relaying => IsPrefix(sent, NonEmpty(up.body)))
  /\ [][(Relaying /\ pc = "streaming") =>
          /\ resp' = resp
          /\ up' = up
          /\ IsPrefix(sent, sent') /\ Len(sent') <= Len(sent) + 1
          /\ pc' = "done" => sent' = sent]_vars
  /\ [][(Relaying /\ pc = "done") => (pc' = "idle" /\ sent' = <<>>)]_vars

\* a relay that stopped mid-transfer: one chunk delivered, one never read
C18_Witness ==
  /\ Relaying
  /\ pc = "done"
  /\ sent # <<>>
  /\ pending # <<>>
  /\ Len(sent) < Len(NonEmpty(up.body))

\* the content-types that name the manifest media type
ManifestTypes == {"application/vnd.apple.mpegurl", "application/x-mpegURL"}

\* C19: every rewritten playlist is served with a manifest content-type and
\* with a no-cache or no-store cache directive, whatever content-type upstream
\* declared for it.
C19_PlaylistHeaders ==
  PlaylistServed =>
    /\ resp.ctype \in ManifestTypes
    /\ resp.cache \in {"no-cache", "no-store"}

\* /stream fetched a resource and upstream answered it with 200 or 206 and
\* no length above the ceiling
FetchedThroughStream ==
  /\ Answered
  /\ req.endpoint = "stream"
  /\ calls # <<>>
  /\ ServingCall(calls[Len(calls)])
  /\ calls[Len(calls)].status \in {200, 206}
  /\ ~DeclaredTooLarge

\* the path of the URL, without its query string, ends in the manifest extension
PathEndsInManifestExt(url) == EndsWith(Lower(urlparse(url, "").path), <<".m3u8">>)

\* C20: a resource fetched through /stream whose upstream content-type names
\* the manifest media type, or whose URL path ends in .m3u8 (a query string
\* behind the path or not), is returned as a rewritten playlist and never
\* relayed as opaque bytes.
C20_ManifestNeverRelayed ==
  (FetchedThroughStream
     /\ (up.ctype \in ManifestTypes \/ PathEndsInManifestExt(calls[Len(calls)].url)))
    => resp.kind = "playlist"

\* /api/get-audio-variant has been answered
AudioRequested == Answered /\ req.endpoint = "audio"

\* a parameter of the audio lookup is missing
MissingParameter == req.url = <<>> \/ req.audio = ""

\* C21: on /api/get-audio-variant a missing url or audio parameter is
\* answered 400, a manifest that cannot be fetched or parsed is answered 400,
\* a manifest that resolves to no variants is answered 400, and 502 is not
\* the answer to any of them.
C21_AudioClientErrors ==
  AudioRequested =>
    IF MissingParameter THEN resp.status = 400 /\ calls = <<>>
    ELSE LET hls == parse_hls_playlist(req.url, up, <<>>)
         IN  IF ~hls.ok THEN resp.status = 400
             ELSE IF hls.info.variants = <<>> THEN resp.status = 400
             ELSE resp.status = 200

====
